---- MODULE Spec2Model ----
(***************************************************************************)
(* A model of antlabs/cpuproc: the CPU time sampler (TimesWithContext,     *)
(* parseStatLine), the percentage engine (calculateBusy, calculateAllBusy, *)
(* PercentWithContext in interval mode and in since-last-call mode over    *)
(* the shared lastCPUPercent cache) and the process handle (CPUPercent).   *)
(*                                                                         *)
(* Counters are held in clock ticks, i.e. in units of 1/ClocksPerSec       *)
(* seconds: parseStatLine divides every field by the same ClocksPerSec, so *)
(* a TimesStat field of k here is the float k/ClocksPerSec of the source.  *)
(* Percentages are exact rationals <<num, den>> in lowest terms.           *)
(***************************************************************************)
EXTENDS Integers, Sequences, FiniteSets, TLC

\* ------------------------------------------------------------------ bounds

\* SpecBusy: every snapshot whose ten counters sum to at most MaxTicks.
MaxTicks == 2

\* ------------------------------------------------------------------ state

\* calculateBusy on its own: the two snapshots and the results.
VARIABLES snap1, snap2, busyPct, allPct, busyPc

busyVars == <<snap1, snap2, busyPct, allPct, busyPc>>

\* The percentage functions.
VARIABLES
    file,        \* the id of the stat file's present content
    writes,      \* the changes of the file so far
    clock,       \* the number of samples taken for the cache so far
    lastCPUPercent, \* the cache: [lastCPUTimes, lastPerCPUTimes], each a slot
    mutex,       \* the goroutine holding lastCPUPercent's Mutex, or NoProc
    calls,       \* the calls started so far
    pc,          \* where each goroutine is
    call,        \* its call: [interval, percpu, total]
    cpuTimes,    \* since-last-call mode: the new sample
    lastTimes,   \* since-last-call mode: the baseline read from the cache
    cpuTimes1,   \* interval mode: the first sample
    cpuTimes2,   \* interval mode: the second sample
    ret,         \* PercentWithContext's []float64
    err,         \* its error
    totalRet,    \* PercentTotal's float64
    ctxDone,     \* the caller's context is cancelled
    timerFired,  \* Sleep's timer has fired
    diffLog      \* history: the diffs of since-last-call mode, each with the
                 \* stamps of its baseline and of its new sample

percentVars ==
    <<file, writes, clock, lastCPUPercent, mutex, calls, pc, call, cpuTimes, lastTimes,
      cpuTimes1, cpuTimes2, ret, err, totalRet, ctxDone, timerFired, diffLog>>

\* The process handle.
VARIABLES
    procSet,     \* proc.set.Count(): the CPUs of the affinity set
    procFile,    \* the id of the present content of /proc/<pid>/stat
    bootTime,    \* what BootTimeWithContext returns, in seconds
    now,         \* the wall clock, in milliseconds
    procPc,      \* where CPUPercent is
    crtTime,     \* crt_time of CPUPercentWithContext
    rawPercent,  \* what cpuPercent returned
    procRet,     \* what CPUPercent returned
    procErr      \* its error

procVars == <<procSet, procFile, bootTime, now, procPc, crtTime, rawPercent, procRet, procErr>>

\* The boot time and its cache.
VARIABLES
    cachedBootTime,  \* the cached boot time, 0 while empty
    cachedVirtMap,   \* the cached virtualization identity
    virtEnv,         \* the identity the host's files show
    statFile,        \* the state of HostProc/stat as the boot-time lookup finds it
    uptimeFile,      \* the state of HostProc/uptime
    bootAt,          \* the instant of boot, in clock units
    wall,            \* the wall clock, in clock units
    btCalls,         \* BootTimeWithContext calls made
    btPc,            \* where each caller's BootTimeWithContext is
    btCache,         \* its enableCache argument
    btUseStat,       \* its useStatFile
    btStatT,         \* what its readBootTimeStat returned, 0 before
    btUptime,        \* the uptime it read, in clock units
    btRet,           \* its result
    btErr,           \* its error
    btSrc            \* history: where its result came from

bootVars ==
    <<cachedBootTime, cachedVirtMap, virtEnv, statFile, uptimeFile, bootAt, wall, btCalls,
      btPc, btCache, btUseStat, btStatT, btUptime, btRet, btErr, btSrc>>

vars == <<percentVars, busyVars, procVars, bootVars>>

\* ------------------------------------------------------------------ rationals

RECURSIVE GCD(_, _)
GCD(a, b) == IF b = 0 THEN a ELSE GCD(b, a % b)

\* n/d in lowest terms, n >= 0, d > 0.
Rat(n, d) == LET g == GCD(n, d) IN <<n \div g, d \div g>>

RatLeq(x, y) == x[1] * y[2] <= y[1] * x[2]

RatEq(x, y) == x[1] * y[2] = y[1] * x[2]

\* ------------------------------------------------------------------ TimesStat

CounterFields ==
    {"User", "Nice", "System", "Idle", "Iowait", "Irq", "Softirq", "Steal", "Guest", "GuestNice"}

ZeroTimes(cpu) ==
    [CPU |-> cpu, User |-> 0, Nice |-> 0, System |-> 0, Idle |-> 0, Iowait |-> 0,
     Irq |-> 0, Softirq |-> 0, Steal |-> 0, Guest |-> 0, GuestNice |-> 0]

\* TimesStat.Total: the sum of the ten counters.
Total(t) ==
    t.User + t.System + t.Idle + t.Nice + t.Iowait + t.Irq + t.Softirq + t.Steal
        + t.Guest + t.GuestNice

\* runtime.GOOS of the build this model describes.
GOOS == "linux"

\* The mutant: GuestNice is not taken out of the total.
getAllBusyKeepGuestNice(t) ==
    LET tot == Total(t) - t.Guest
    IN  <<tot, tot - t.Idle - t.Iowait>>

\* getAllBusy: <<tot, busy>>.
getAllBusy(t) ==
    LET tot0 == Total(t)
        tot  == IF GOOS = "linux" THEN (tot0 - t.Guest) - t.GuestNice ELSE tot0
        busy == tot - t.Idle - t.Iowait
    IN  <<tot, busy>>

\* The mutant: the upper clamp is missing.
clampPercentNoMin(n, d) == IF n < 0 THEN Rat(0, 1) ELSE Rat(n, d)

\* math.Min(100, math.Max(0, n/d*100)) for d > 0; n is busy2-busy1 times 100.
clampPercent(n, d) ==
    IF n < 0 THEN Rat(0, 1)
    ELSE IF n > 100 * d THEN Rat(100, 1)
    ELSE Rat(n, d)

\* The mutant: a strict comparison in the first branch.
busyNotAdvancedStrict(t1Busy, t2Busy) == t2Busy < t1Busy

\* The first branch of calculateBusy: t2Busy <= t1Busy.
busyNotAdvanced(t1Busy, t2Busy) == t2Busy <= t1Busy

calculateBusy(t1, t2) ==
    LET a1 == getAllBusy(t1)
        a2 == getAllBusy(t2)
        t1All == a1[1]
        t1Busy == a1[2]
        t2All == a2[1]
        t2Busy == a2[2]
    IN  IF busyNotAdvanced(t1Busy, t2Busy) THEN Rat(0, 1)
        ELSE IF t2All <= t1All THEN Rat(100, 1)
        ELSE clampPercent((t2Busy - t1Busy) * 100, t2All - t1All)

\* The mutant: no length check; the result is cut to the shorter sequence.
calculateAllBusyTruncating(t1, t2) ==
    LET n == IF Len(t1) < Len(t2) THEN Len(t1) ELSE Len(t2)
    IN  [ret |-> [i \in 1..n |-> calculateBusy(t1[i], t2[i])], err |-> "nil"]

\* calculateAllBusy: [ret, err]; ret = <<>> stands for the nil slice of the
\* error return as well as for the empty slice of two empty samples.
calculateAllBusy(t1, t2) ==
    IF Len(t1) # Len(t2)
    THEN [ret |-> <<>>, err |-> "ShapeMismatch"]
    ELSE [ret |-> [i \in 1..Len(t1) |-> calculateBusy(t1[i], t2[i])], err |-> "nil"]

\* ------------------------------------------------------------------ SpecBusy

NoPct == <<>>

\* The two snapshots start at zero; the counters are then set, tick by tick,
\* to every pair of snapshots whose counters sum to at most MaxTicks each
\* (either snapshot may be the larger: counters that went back are covered).
BusyInit ==
    /\ snap1 = ZeroTimes("cpu-total")
    /\ snap2 = ZeroTimes("cpu-total")
    /\ busyPct = NoPct
    /\ allPct = [ret |-> <<>>, err |-> "none"]
    /\ busyPc = "start"

\* One more tick in a counter of the first snapshot.
Tick1(c) ==
    /\ busyPc = "start"
    /\ Total(snap1) < MaxTicks
    /\ snap1' = [snap1 EXCEPT ![c] = @ + 1]
    /\ UNCHANGED <<snap2, busyPct, allPct, busyPc, percentVars, procVars, bootVars>>

\* One more tick in a counter of the second snapshot.
Tick2(c) ==
    /\ busyPc = "start"
    /\ Total(snap2) < MaxTicks
    /\ snap2' = [snap2 EXCEPT ![c] = @ + 1]
    /\ UNCHANGED <<snap1, busyPct, allPct, busyPc, percentVars, procVars, bootVars>>

\* calculateBusy(snap1, snap2).
CalcBusy ==
    /\ busyPc = "start"
    /\ busyPct' = calculateBusy(snap1, snap2)
    /\ busyPc' = "busy"
    /\ UNCHANGED <<snap1, snap2, allPct, percentVars, procVars, bootVars>>

\* calculateAllBusy over the one-element samples of the aggregate mode, as
\* PercentWithContext returns it for the two samples snap1, snap2.
CalcAllBusy ==
    /\ busyPc = "busy"
    /\ allPct' = calculateAllBusy(<<snap1>>, <<snap2>>)
    /\ busyPc' = "all"
    /\ UNCHANGED <<snap1, snap2, busyPct, percentVars, procVars, bootVars>>

BusyNext ==
    \/ \E c \in CounterFields : Tick1(c)
    \/ \E c \in CounterFields : Tick2(c)
    \/ CalcBusy
    \/ CalcAllBusy

\* ------------------------------------------------------------------ the stat file

\* A whitespace-separated field of a line: a word, or a number strconv.ParseFloat
\* accepts (n; w = "").
Num(n) == [w |-> "", n |-> n]

Word(w) == [w |-> w, n |-> 0]

\* The words that start with "cpu".
CpuWords == {"cpu", "cpu0", "cpu1", "cpu2"}

\* strings.HasPrefix(x, "cpu") of a field.
HasPrefixCpu(f) == f.w \in CpuWords

\* strings.HasPrefix(line, "cpu") of a line, given as its fields.
LineHasPrefixCpu(line) == Len(line) > 0 /\ HasPrefixCpu(line[1])

\* strconv.ParseFloat succeeds on the field.
IsFloat(f) == f.w = ""

ParseError == [err |-> TRUE, ct |-> ZeroTimes("")]

\* parseStatLine: [err, ct].
parseStatLine(fields) ==
    IF Len(fields) < 8 THEN ParseError
    ELSE IF ~HasPrefixCpu(fields[1]) THEN ParseError
    ELSE IF \E i \in 2..8 : ~IsFloat(fields[i]) THEN ParseError
    ELSE IF Len(fields) > 8 /\ ~IsFloat(fields[9]) THEN ParseError
    ELSE IF Len(fields) > 9 /\ ~IsFloat(fields[10]) THEN ParseError
    ELSE IF Len(fields) > 10 /\ ~IsFloat(fields[11]) THEN ParseError
    ELSE [err |-> FALSE,
          ct |-> [CPU |-> IF fields[1].w = "cpu" THEN "cpu-total" ELSE fields[1].w,
                  User |-> fields[2].n,
                  Nice |-> fields[3].n,
                  System |-> fields[4].n,
                  Idle |-> fields[5].n,
                  Iowait |-> fields[6].n,
                  Irq |-> fields[7].n,
                  Softirq |-> fields[8].n,
                  Steal |-> IF Len(fields) > 8 THEN fields[9].n ELSE 0,
                  Guest |-> IF Len(fields) > 9 THEN fields[10].n ELSE 0,
                  GuestNice |-> IF Len(fields) > 10 THEN fields[11].n ELSE 0]]

\* A stat file: whether it can be opened, and its lines.
MissingFile == [readable |-> FALSE, lines |-> <<>>]

\* ReadLinesOffsetN(filename, 0, 1): one empty line on an open error (the error
\* is dropped by the caller), else at most the first line.
ReadFirstLine(f) ==
    IF ~f.readable THEN << <<>> >>
    ELSE IF Len(f.lines) = 0 THEN <<>>
    ELSE <<f.lines[1]>>

\* The leading run of lines with the prefix "cpu".
RECURSIVE CpuPrefixRun(_)
CpuPrefixRun(lines) ==
    IF lines = <<>> \/ ~LineHasPrefixCpu(Head(lines)) THEN <<>>
    ELSE <<Head(lines)>> \o CpuPrefixRun(Tail(lines))

\* The lines that parse, parsed, in order.
RECURSIVE ParseAll(_)
ParseAll(lines) ==
    IF lines = <<>> THEN <<>>
    ELSE LET r == parseStatLine(Head(lines))
         IN  (IF r.err THEN <<>> ELSE <<r.ct>>) \o ParseAll(Tail(lines))

\* TimesWithContext: the sample (its error is always nil).
TimesWithContext(f, percpu) ==
    IF percpu
    THEN IF ~f.readable \/ Len(f.lines) < 2 THEN <<>>
         ELSE ParseAll(CpuPrefixRun(Tail(f.lines)))
    ELSE ParseAll(ReadFirstLine(f))

\* A line "label n1 n2 ...".
CpuLine(label, nums) == <<Word(label)>> \o [i \in 1..Len(nums) |-> Num(nums[i])]

\* The contents the stat file takes in the model, in ticks:
\*   1  no file (or no permission to open it);
\*   2  two cores, ten counters a line;
\*   3  the same host later: the counters advanced and guest time appeared,
\*      cpu0's line is damaged (it is skipped: one core), cpu1 idled less
\*      than before.
Fixtures ==
    << MissingFile,
       [readable |-> TRUE,
        lines |-> << CpuLine("cpu",  <<2, 0, 1, 4, 1, 0, 0, 0, 0, 0>>),
                     CpuLine("cpu0", <<1, 0, 1, 2, 0, 0, 0, 0, 0, 0>>),
                     CpuLine("cpu1", <<1, 0, 0, 2, 1, 0, 0, 0, 0, 0>>),
                     <<Word("intr"), Num(9)>> >>],
       [readable |-> TRUE,
        lines |-> << CpuLine("cpu",  <<4, 0, 2, 6, 2, 0, 0, 0, 1, 0>>),
                     <<Word("cpu0"), Num(3), Word("x"), Num(2), Num(2), Num(0), Num(0), Num(0)>>,
                     CpuLine("cpu1", <<2, 0, 0, 3, 1, 0, 0>>),
                     <<Word("intr"), Num(12)>> >>] >>

FixtureIds == 1..Len(Fixtures)

\* ------------------------------------------------------------------ Spec: Percent

\* The goroutines that call the percentage functions: two, the least number
\* that can interleave.
Procs == {1, 2}

\* The calls made in one behaviour.
MaxCalls == 2

\* The changes of the stat file's content in one behaviour.
MaxWrites == 1

NoProc == 0

\* interval <= 0: since-last-call mode; interval > 0: interval mode.
Intervals == {0, 1}

\* A sample: the []TimesStat, and, as history, of what file content it was
\* taken and, for the samples of the cache, when (interval mode's samples,
\* which never reach the cache, carry 0). nil marks the nil slice.
NoSample == [times |-> <<>>, at |-> -1, src |-> 0, nil |-> TRUE]

Sample(f, percpu, at) ==
    [times |-> TimesWithContext(Fixtures[f], percpu), at |-> at, src |-> f, nil |-> FALSE]

\* A cache slot is a slice header: the data (with the history of its sample)
\* and the length, written one after the other. lenOf is the sample whose
\* length the header holds.
SlotOf(s) == [times |-> s.times, at |-> s.at, src |-> s.src, nil |-> s.nil, lenOf |-> s.at]

SampleIn(slot) == [times |-> slot.times, at |-> slot.at, src |-> slot.src, nil |-> slot.nil]

NoCall == [interval |-> 0, percpu |-> FALSE, total |-> FALSE]

\* The mutant: every request uses the aggregate slot.
slotNameAlwaysAggregate(percpu) == "lastCPUTimes"

\* The slot percentUsedFromLastCallWithContext uses for the mode.
slotName(percpu) == IF percpu THEN "lastPerCPUTimes" ELSE "lastCPUTimes"

\* The mutant: Lock that does not wait.
lockAvailableAlways(m) == TRUE

\* lastCPUPercent.Lock() can return.
lockAvailable(m) == m = NoProc

\* The state after the package's init(): both slots sampled from the file as it
\* is at start, no call made yet.
PercentInit ==
    /\ file \in FixtureIds
    /\ writes = 0
    /\ clock = 2
    /\ lastCPUPercent = [lastCPUTimes |-> SlotOf(Sample(file, FALSE, 0)),
                         lastPerCPUTimes |-> SlotOf(Sample(file, TRUE, 1))]
    /\ mutex = NoProc
    /\ calls = 0
    /\ pc = [p \in Procs |-> "idle"]
    /\ call = [p \in Procs |-> NoCall]
    /\ cpuTimes = [p \in Procs |-> NoSample]
    /\ lastTimes = [p \in Procs |-> NoSample]
    /\ cpuTimes1 = [p \in Procs |-> NoSample]
    /\ cpuTimes2 = [p \in Procs |-> NoSample]
    /\ ret = [p \in Procs |-> <<>>]
    /\ err = [p \in Procs |-> "none"]
    /\ totalRet = [p \in Procs |-> NoPct]
    /\ ctxDone = [p \in Procs |-> FALSE]
    /\ timerFired = [p \in Procs |-> FALSE]
    /\ diffLog = {}

\* An unrecovered panic ends the process: no goroutine takes a step after it.
Running == \A p \in Procs : pc[p] # "panic"

\* The kernel, or whoever owns the file, changes its content.
WriteFile(f) ==
    /\ Running
    /\ f # file
    /\ writes < MaxWrites
    /\ file' = f
    /\ writes' = writes + 1
    /\ UNCHANGED <<clock, lastCPUPercent, mutex, calls, pc, call, cpuTimes, lastTimes,
                   cpuTimes1, cpuTimes2, ret, err, totalRet, ctxDone, timerFired, diffLog>>
    /\ UNCHANGED <<busyVars, procVars, bootVars>>

\* A goroutine calls PercentWithContext(ctx, interval, percpu), or, with total,
\* PercentTotal(interval), which is Percent(interval, false) on the background
\* context. The call starts with its first sample, TimesWithContext(ctx, percpu):
\* cpuTimes of percentUsedFromLastCallWithContext, taken before the lock, or
\* cpuTimes1 of interval mode, after which Sleep creates its timer.
Call(p, interval, percpu, total) ==
    /\ Running
    /\ pc[p] \in {"idle", "ret", "done"}
    /\ pc[p] = "ret" => ~call[p].total
    /\ calls < MaxCalls
    /\ total => ~percpu
    /\ calls' = calls + 1
    /\ call' = [call EXCEPT ![p] = [interval |-> interval, percpu |-> percpu, total |-> total]]
    /\ IF interval <= 0
       THEN /\ cpuTimes' = [cpuTimes EXCEPT ![p] = Sample(file, percpu, clock)]
            /\ cpuTimes1' = [cpuTimes1 EXCEPT ![p] = NoSample]
            /\ clock' = clock + 1
            /\ pc' = [pc EXCEPT ![p] = "lock"]
       ELSE /\ cpuTimes' = [cpuTimes EXCEPT ![p] = NoSample]
            /\ cpuTimes1' = [cpuTimes1 EXCEPT ![p] = Sample(file, percpu, 0)]
            /\ clock' = clock
            /\ pc' = [pc EXCEPT ![p] = "sleep"]
    /\ lastTimes' = [lastTimes EXCEPT ![p] = NoSample]
    /\ cpuTimes2' = [cpuTimes2 EXCEPT ![p] = NoSample]
    /\ ret' = [ret EXCEPT ![p] = <<>>]
    /\ err' = [err EXCEPT ![p] = "none"]
    /\ totalRet' = [totalRet EXCEPT ![p] = NoPct]
    /\ ctxDone' = [ctxDone EXCEPT ![p] = FALSE]
    /\ timerFired' = [timerFired EXCEPT ![p] = FALSE]
    /\ UNCHANGED <<file, writes, lastCPUPercent, mutex, diffLog>>
    /\ UNCHANGED <<busyVars, procVars, bootVars>>

\* lastCPUPercent.Lock(), and the first statement under the lock:
\* lastTimes = lastCPUPercent.<slot>.
SlcLockRead(p) ==
    /\ Running
    /\ pc[p] = "lock"
    /\ lockAvailable(mutex)
    /\ mutex' = p
    /\ lastTimes' = [lastTimes EXCEPT ![p] = SampleIn(lastCPUPercent[slotName(call[p].percpu)])]
    /\ pc' = [pc EXCEPT ![p] = "store"]
    /\ UNCHANGED <<file, writes, clock, lastCPUPercent, calls, call, cpuTimes, cpuTimes1,
                   cpuTimes2, ret, err, totalRet, ctxDone, timerFired, diffLog>>
    /\ UNCHANGED <<busyVars, procVars, bootVars>>

\* lastCPUPercent.<slot> = cpuTimes: the data word of the slice header.
SlcStoreData(p) ==
    /\ Running
    /\ pc[p] = "store"
    /\ LET n == slotName(call[p].percpu)
           s == cpuTimes[p]
       IN  lastCPUPercent' =
               [lastCPUPercent EXCEPT ![n] =
                   [times |-> s.times, at |-> s.at, src |-> s.src, nil |-> s.nil,
                    lenOf |-> lastCPUPercent[n].lenOf]]
    /\ pc' = [pc EXCEPT ![p] = "storelen"]
    /\ UNCHANGED <<file, writes, clock, mutex, calls, call, cpuTimes, lastTimes, cpuTimes1, cpuTimes2,
                   ret, err, totalRet, ctxDone, timerFired, diffLog>>
    /\ UNCHANGED <<busyVars, procVars, bootVars>>

\* lastCPUPercent.<slot> = cpuTimes: the length word of the slice header.
SlcStoreLen(p) ==
    /\ Running
    /\ pc[p] = "storelen"
    /\ LET n == slotName(call[p].percpu)
       IN  lastCPUPercent' = [lastCPUPercent EXCEPT ![n].lenOf = cpuTimes[p].at]
    /\ pc' = [pc EXCEPT ![p] = "diff"]
    /\ UNCHANGED <<file, writes, clock, mutex, calls, call, cpuTimes, lastTimes, cpuTimes1, cpuTimes2,
                   ret, err, totalRet, ctxDone, timerFired, diffLog>>
    /\ UNCHANGED <<busyVars, procVars, bootVars>>

\* The nil check, calculateAllBusy(lastTimes, cpuTimes), the deferred Unlock and
\* the return.
SlcDiff(p) ==
    /\ Running
    /\ pc[p] = "diff"
    /\ LET r == IF lastTimes[p].nil
                THEN [ret |-> <<>>, err |-> "NoBaseline"]
                ELSE calculateAllBusy(lastTimes[p].times, cpuTimes[p].times)
       IN  /\ ret' = [ret EXCEPT ![p] = r.ret]
           /\ err' = [err EXCEPT ![p] = r.err]
    /\ diffLog' = diffLog \cup {[percpu |-> call[p].percpu, base |-> lastTimes[p].at,
                                  new |-> cpuTimes[p].at]}
    /\ mutex' = NoProc
    /\ pc' = [pc EXCEPT ![p] = "ret"]
    /\ UNCHANGED <<file, writes, clock, lastCPUPercent, calls, call, cpuTimes, lastTimes, cpuTimes1,
                   cpuTimes2, totalRet, ctxDone, timerFired>>
    /\ UNCHANGED <<busyVars, procVars, bootVars>>

\* The interval elapses: the timer sends on timer.C.
TimerFire(p) ==
    /\ Running
    /\ pc[p] = "sleep"
    /\ ~timerFired[p]
    /\ timerFired' = [timerFired EXCEPT ![p] = TRUE]
    /\ UNCHANGED <<file, writes, clock, lastCPUPercent, mutex, calls, pc, call, cpuTimes, lastTimes,
                   cpuTimes1, cpuTimes2, ret, err, totalRet, ctxDone, diffLog>>
    /\ UNCHANGED <<busyVars, procVars, bootVars>>

\* The caller cancels the context of a PercentWithContext call during the
\* sleep. Percent and PercentTotal run on context.Background().
Cancel(p) ==
    /\ Running
    /\ pc[p] = "sleep"
    /\ ~call[p].total
    /\ ~ctxDone[p]
    /\ ctxDone' = [ctxDone EXCEPT ![p] = TRUE]
    /\ UNCHANGED <<file, writes, clock, lastCPUPercent, mutex, calls, pc, call, cpuTimes, lastTimes,
                   cpuTimes1, cpuTimes2, ret, err, totalRet, timerFired, diffLog>>
    /\ UNCHANGED <<busyVars, procVars, bootVars>>

\* The mutant: the ctx.Done() case returns nil.
sleepResultsDropCancel(done, fired) ==
    (IF done THEN {"nil"} ELSE {}) \cup (IF fired THEN {"nil"} ELSE {})

\* Sleep's select: the errors it can return, one for each case that is ready.
sleepResults(done, fired) ==
    (IF done THEN {"Canceled"} ELSE {}) \cup (IF fired THEN {"nil"} ELSE {})

\* Sleep returns (its timer is stopped, drained or received from: it is gone),
\* and PercentWithContext returns its error or goes on.
SleepReturn(p) ==
    /\ Running
    /\ pc[p] = "sleep"
    /\ \E e \in sleepResults(ctxDone[p], timerFired[p]) :
        IF e # "nil"
        THEN /\ err' = [err EXCEPT ![p] = e]
             /\ ret' = [ret EXCEPT ![p] = <<>>]
             /\ pc' = [pc EXCEPT ![p] = "ret"]
        ELSE /\ pc' = [pc EXCEPT ![p] = "sample2"]
             /\ UNCHANGED <<ret, err>>
    /\ timerFired' = [timerFired EXCEPT ![p] = FALSE]
    /\ UNCHANGED <<file, writes, clock, lastCPUPercent, mutex, calls, call, cpuTimes, lastTimes,
                   cpuTimes1, cpuTimes2, totalRet, ctxDone, diffLog>>
    /\ UNCHANGED <<busyVars, procVars, bootVars>>

\* cpuTimes2, err := TimesWithContext(ctx, percpu);
\* return calculateAllBusy(cpuTimes1, cpuTimes2).
IntervalSample2(p) ==
    /\ Running
    /\ pc[p] = "sample2"
    /\ LET s == Sample(file, call[p].percpu, 0)
           r == calculateAllBusy(cpuTimes1[p].times, s.times)
       IN  /\ cpuTimes2' = [cpuTimes2 EXCEPT ![p] = s]
           /\ ret' = [ret EXCEPT ![p] = r.ret]
           /\ err' = [err EXCEPT ![p] = r.err]
    /\ pc' = [pc EXCEPT ![p] = "ret"]
    /\ UNCHANGED <<file, writes, clock, lastCPUPercent, mutex, calls, call, cpuTimes, lastTimes, cpuTimes1,
                   totalRet, ctxDone, timerFired, diffLog>>
    /\ UNCHANGED <<busyVars, procVars, bootVars>>

\* PercentTotal after Percent has returned: 0 and the error, or rv[0], which
\* panics (index out of range) on an empty rv.
PercentTotalReturn(p) ==
    /\ Running
    /\ pc[p] = "ret"
    /\ call[p].total
    /\ IF err[p] # "nil"
       THEN /\ totalRet' = [totalRet EXCEPT ![p] = Rat(0, 1)]
            /\ pc' = [pc EXCEPT ![p] = "done"]
       ELSE IF Len(ret[p]) = 0
       THEN /\ pc' = [pc EXCEPT ![p] = "panic"]
            /\ UNCHANGED totalRet
       ELSE /\ totalRet' = [totalRet EXCEPT ![p] = ret[p][1]]
            /\ pc' = [pc EXCEPT ![p] = "done"]
    /\ UNCHANGED <<file, writes, clock, lastCPUPercent, mutex, calls, call, cpuTimes, lastTimes,
                   cpuTimes1, cpuTimes2, ret, err, ctxDone, timerFired, diffLog>>
    /\ UNCHANGED <<busyVars, procVars, bootVars>>

PercentNext ==
    \/ \E f \in FixtureIds : WriteFile(f)
    \/ \E p \in Procs, i \in Intervals, percpu \in BOOLEAN, total \in BOOLEAN :
         Call(p, i, percpu, total)
    \/ \E p \in Procs : SlcLockRead(p)
    \/ \E p \in Procs : SlcStoreData(p)
    \/ \E p \in Procs : SlcStoreLen(p)
    \/ \E p \in Procs : SlcDiff(p)
    \/ \E p \in Procs : TimerFire(p)
    \/ \E p \in Procs : Cancel(p)
    \/ \E p \in Procs : SleepReturn(p)
    \/ \E p \in Procs : IntervalSample2(p)
    \/ \E p \in Procs : PercentTotalReturn(p)

\* ------------------------------------------------------------------ SpecProc: the process handle

\* The CPUs an affinity set holds at most.
MaxCPUs == 2

\* clockTicks, the ticks of a second.
clockTicks == 100

\* A process-stat record: whether the file can be read, whether it holds
\* "(" before a last ")" that a space and the remaining fields follow, and
\* those fields (field 3, the state, is the first of them).
ProcStat(readable, parens, rest) == [readable |-> readable, parens |-> parens, rest |-> rest]

\* The remaining fields of a record of 52 fields, all 0 but the named ones.
ProcRest(ppid, tty, utime, stime, prio, start, blkio) ==
    [i \in 1..50 |->
        CASE i = 1 -> Word("S")
          [] i = 2 -> ppid
          [] i = 5 -> tty
          [] i = 12 -> utime
          [] i = 13 -> stime
          [] i = 16 -> prio
          [] i = 20 -> start
          [] i = 40 -> blkio
          [] OTHER -> Num(0)]

\* The contents /proc/<pid>/stat takes in the model:
\*   1  the process is gone;
\*   2  1.5 s of user time, started at boot;
\*   3  0.5 s user, 0.5 s system, 0.2 s of block I/O delay, started 1 s after boot;
\*   4  a user time that is no number;
\*   5  no CPU time used yet;
\*   6  a record cut short after its fourth field;
\*   7  a record without a parenthesised name.
ProcFixtures ==
    << ProcStat(FALSE, FALSE, <<>>),
       ProcStat(TRUE, TRUE, ProcRest(Num(1), Num(0), Num(150), Num(0), Num(20), Num(0), Num(0))),
       ProcStat(TRUE, TRUE, ProcRest(Num(1), Num(34816), Num(50), Num(50), Num(-2), Num(100), Num(20))),
       ProcStat(TRUE, TRUE, ProcRest(Num(1), Num(0), Word("x"), Num(0), Num(20), Num(0), Num(0))),
       ProcStat(TRUE, TRUE, ProcRest(Num(1), Num(0), Num(0), Num(0), Num(20), Num(0), Num(0))),
       ProcStat(TRUE, TRUE, <<Word("S"), Num(1)>>),
       ProcStat(TRUE, FALSE, <<>>) >>

ProcFixtureIds == 1..Len(ProcFixtures)

\* The boot times, in seconds, and the wall clock readings, in milliseconds.
BootTimes == {0, 10}

NowValues == {0, 1000, 2000, 12000}

\* splitProcStat: the fields, indexed from one as in `man proc` (fields[0] of
\* the source is not kept); pid and name are opaque.
splitProcStat(content) == <<Word("pid"), Word("name")>> \o content.rest

\* strconv.ParseUint / ParseInt / ParseFloat succeed on the field.
IsUint(f) == f.w = "" /\ f.n >= 0

IsInt(f) == f.w = ""

\* fillFromTIDStatWithContext: [outcome, ...]; outcome is "ok", "err" (an error
\* and zero values) or "panic" (a slice or index out of range).
FillFailed(outcome) ==
    [outcome |-> outcome, terminal |-> 0, ppid |-> 0, utime |-> 0, stime |-> 0, iotime |-> 0,
     createTime |-> 0, rtpriority |-> 0]

fillFromTIDStatWithContext(content, boot) ==
    IF ~content.readable THEN FillFailed("err")
    ELSE IF ~content.parens THEN FillFailed("panic")
    ELSE LET fields == splitProcStat(content)
             n == Len(fields)
         IN  IF n < 7 THEN FillFailed("panic")
             ELSE IF ~IsUint(fields[7]) THEN FillFailed("err")
             ELSE IF ~IsInt(fields[4]) THEN FillFailed("err")
             ELSE IF n < 14 THEN FillFailed("panic")
             ELSE IF ~IsFloat(fields[14]) THEN FillFailed("err")
             ELSE IF n < 15 THEN FillFailed("panic")
             ELSE IF ~IsFloat(fields[15]) THEN FillFailed("err")
             ELSE IF n < 22 THEN FillFailed("panic")
             ELSE IF ~IsUint(fields[22]) THEN FillFailed("err")
             ELSE IF ~IsInt(fields[18]) THEN FillFailed("err")
             ELSE IF \E i \in 10..13 : ~IsUint(fields[i]) THEN FillFailed("err")
             ELSE [outcome |-> "ok",
                   terminal |-> fields[7].n,
                   ppid |-> fields[4].n,
                   utime |-> fields[14].n,
                   stime |-> fields[15].n,
                   iotime |-> IF n >= 42 /\ IsFloat(fields[42]) THEN fields[42].n ELSE 0,
                   createTime |-> ((fields[22].n \div clockTicks) + boot) * 1000,
                   rtpriority |-> IF fields[18].n < 0 THEN fields[18].n * (-1) - 1 ELSE 0]

\* CPUPercent's return: cpuPercent / (float64(total) * float64(100)).
normalize(cpuPercent, total) == Rat(cpuPercent[1], cpuPercent[2] * (total * 100))

ProcInit ==
    /\ procSet \in 1..MaxCPUs
    /\ procFile \in ProcFixtureIds
    /\ bootTime \in BootTimes
    /\ now \in NowValues
    /\ procPc = "start"
    /\ crtTime = 0
    /\ rawPercent = NoPct
    /\ procRet = NoPct
    /\ procErr = "none"

\* The kernel rewrites the record.
ProcStatChange(f) ==
    /\ procPc \in {"start", "times"}
    /\ f # procFile
    /\ procFile' = f
    /\ UNCHANGED <<procSet, bootTime, now, procPc, crtTime, rawPercent, procRet, procErr>>
    /\ UNCHANGED <<percentVars, busyVars, bootVars>>

\* CPUPercent -> cpuPercent -> CPUPercentWithContext: createTimeWithContext.
ProcCreateTime ==
    /\ procPc = "start"
    /\ LET r == fillFromTIDStatWithContext(ProcFixtures[procFile], bootTime)
       IN  CASE r.outcome = "panic" ->
                    /\ procPc' = "panic"
                    /\ UNCHANGED <<crtTime, procRet, procErr>>
             [] r.outcome = "err" ->
                    /\ procPc' = "done"
                    /\ procRet' = Rat(0, 1)
                    /\ procErr' = "err"
                    /\ UNCHANGED crtTime
             [] OTHER ->
                    /\ procPc' = "times"
                    /\ crtTime' = r.createTime
                    /\ UNCHANGED <<procRet, procErr>>
    /\ UNCHANGED <<procSet, procFile, bootTime, now, rawPercent>>
    /\ UNCHANGED <<percentVars, busyVars, bootVars>>

\* p.TimesWithContext, the lifetime percentage, and CPUPercent's division.
\* cput.Total() is user + system + iowait of the record, in seconds.
ProcPercent ==
    /\ procPc = "times"
    /\ LET r == fillFromTIDStatWithContext(ProcFixtures[procFile], bootTime)
           totalMs == now - crtTime
           cpuPercent == IF totalMs <= 0 THEN Rat(0, 1)
                         ELSE Rat(100 * (r.utime + r.stime + r.iotime) * 1000,
                                  clockTicks * totalMs)
       IN  CASE r.outcome = "panic" ->
                    /\ procPc' = "panic"
                    /\ UNCHANGED <<rawPercent, procRet, procErr>>
             [] r.outcome = "err" ->
                    /\ procPc' = "done"
                    /\ procRet' = Rat(0, 1)
                    /\ procErr' = "err"
                    /\ UNCHANGED rawPercent
             [] OTHER ->
                    /\ procPc' = "done"
                    /\ rawPercent' = cpuPercent
                    /\ procRet' = normalize(cpuPercent, procSet)
                    /\ procErr' = "nil"
    /\ UNCHANGED <<procSet, procFile, bootTime, now, crtTime>>
    /\ UNCHANGED <<percentVars, busyVars, bootVars>>

ProcNext ==
    \/ \E f \in ProcFixtureIds : ProcStatChange(f)
    \/ ProcCreateTime
    \/ ProcPercent

\* ------------------------------------------------------------------ boot time

\* The clock units of a second.
Second == 2

\* The most the wall clock advances, in clock units.
MaxDelay == 1

\* The wall clock at the start, and the instants the host may have booted at:
\* on a whole second and between two seconds.
WallStart == 20 * Second

BootInstants == {10 * Second, 10 * Second + 1}

\* A virtualization identity; NoVirt is the empty cache.
Virt(system, role) == [system |-> system, role |-> role, nil |-> FALSE]

NoVirt == [system |-> "", role |-> "", nil |-> TRUE]

\* The identities the host's files may show.
Identities == {Virt("", ""), Virt("lxc", "guest"), Virt("docker", "guest"), Virt("lxc", "host")}

\* VirtualizationWithContext: the cached identity if there is one, else the
\* identity found in the host's files.
VirtualizationWithContext(cached, env) == IF ~cached.nil THEN cached ELSE env

\* What opening and reading the two files may give.
StatKinds == {"ok", "missing", "denied", "nobtime"}

UptimeKinds == {"ok", "missing", "denied", "blank"}

\* handleBootTimeFileReadErr on a permission error: the current time in whole
\* seconds less Sysinfo's uptime in whole seconds.
handleBootTimeFileReadErr(boot, w) == (w \div Second) - ((w - boot) \div Second)

\* readBootTimeStat: [t, err].
readBootTimeStat(kind, boot, w) ==
    CASE kind = "ok" -> [t |-> boot \div Second, err |-> "nil"]
      [] kind = "denied" -> [t |-> handleBootTimeFileReadErr(boot, w), err |-> "nil"]
      [] OTHER -> [t |-> 0, err |-> "err"]

\* useStatFile of BootTimeWithContext.
useStatFile(system, role) ==
    ~(system = "lxc" /\ role = "guest") /\ ~(system = "docker" /\ role = "guest")

\* uint64(currentTime - b), in seconds.
uptimeBootTime(w, b) == (w - b) \div Second

BtRunning == \A p \in Procs : btPc[p] # "panic"

\* BootTimeWithContext returns.
BtReturn(p, r, e, src) ==
    /\ btPc' = [btPc EXCEPT ![p] = "done"]
    /\ btRet' = [btRet EXCEPT ![p] = r]
    /\ btErr' = [btErr EXCEPT ![p] = e]
    /\ btSrc' = [btSrc EXCEPT ![p] = src]

\* Time passes.
BtTick ==
    /\ BtRunning
    /\ wall < WallStart + MaxDelay
    /\ wall' = wall + 1
    /\ UNCHANGED <<cachedBootTime, cachedVirtMap, virtEnv, statFile, uptimeFile, bootAt,
                   btCalls, btPc, btCache, btUseStat, btStatT, btUptime, btRet, btErr, btSrc>>
    /\ UNCHANGED <<percentVars, busyVars, procVars>>

\* BootTimeWithContext(ctx, enableCache): the load of the cache.
BtCall(p, enableCache) ==
    /\ BtRunning
    /\ btPc[p] \in {"idle", "done"}
    /\ btCalls < MaxCalls
    /\ btCalls' = btCalls + 1
    /\ btCache' = [btCache EXCEPT ![p] = enableCache]
    /\ btUseStat' = [btUseStat EXCEPT ![p] = FALSE]
    /\ btStatT' = [btStatT EXCEPT ![p] = 0]
    /\ btUptime' = [btUptime EXCEPT ![p] = 0]
    /\ IF enableCache /\ cachedBootTime # 0
       THEN BtReturn(p, cachedBootTime, "nil", "cache")
       ELSE /\ btPc' = [btPc EXCEPT ![p] = "virt"]
            /\ btRet' = [btRet EXCEPT ![p] = 0]
            /\ btErr' = [btErr EXCEPT ![p] = "none"]
            /\ btSrc' = [btSrc EXCEPT ![p] = "none"]
    /\ UNCHANGED <<cachedBootTime, cachedVirtMap, virtEnv, statFile, uptimeFile, bootAt, wall>>
    /\ UNCHANGED <<percentVars, busyVars, procVars>>

\* VirtualizationWithContext and the choice of the file.
BtVirt(p) ==
    /\ BtRunning
    /\ btPc[p] = "virt"
    /\ LET id == VirtualizationWithContext(cachedVirtMap, virtEnv)
           use == useStatFile(id.system, id.role)
       IN  /\ cachedVirtMap' = id
           /\ btUseStat' = [btUseStat EXCEPT ![p] = use]
           /\ btPc' = [btPc EXCEPT ![p] = IF use THEN "stat" ELSE "uptime"]
    /\ UNCHANGED <<cachedBootTime, virtEnv, statFile, uptimeFile, bootAt, wall, btCalls,
                   btCache, btStatT, btUptime, btRet, btErr, btSrc>>
    /\ UNCHANGED <<percentVars, busyVars, procVars>>

\* if useStatFile: readBootTimeStat, the return of its error, the store of t.
BtStat(p) ==
    /\ BtRunning
    /\ btPc[p] = "stat"
    /\ LET r == readBootTimeStat(statFile, bootAt, wall)
       IN  IF r.err # "nil"
           THEN /\ BtReturn(p, 0, "err", "none")
                /\ UNCHANGED <<cachedBootTime, btStatT>>
           ELSE /\ btStatT' = [btStatT EXCEPT ![p] = r.t]
                /\ cachedBootTime' = IF btCache[p] THEN r.t ELSE cachedBootTime
                /\ btPc' = [btPc EXCEPT ![p] = "uptime"]
                /\ btSrc' = [btSrc EXCEPT ![p] = "stat"]
                /\ UNCHANGED <<btRet, btErr>>
    /\ UNCHANGED <<cachedVirtMap, virtEnv, statFile, uptimeFile, bootAt, wall, btCalls,
                   btCache, btUseStat, btUptime>>
    /\ UNCHANGED <<percentVars, busyVars, procVars>>

\* ReadLines of the uptime file, up to strconv.ParseFloat(f[0], 64).
BtReadUptime(p) ==
    /\ BtRunning
    /\ btPc[p] = "uptime"
    /\ CASE uptimeFile = "ok" ->
                /\ btUptime' = [btUptime EXCEPT ![p] = wall - bootAt]
                /\ btPc' = [btPc EXCEPT ![p] = "now"]
                /\ UNCHANGED <<btRet, btErr, btSrc>>
         [] uptimeFile = "denied" ->
                /\ BtReturn(p, handleBootTimeFileReadErr(bootAt, wall), "nil", "sysinfo")
                /\ UNCHANGED btUptime
         [] uptimeFile = "blank" ->
                /\ btPc' = [btPc EXCEPT ![p] = "panic"]
                /\ UNCHANGED <<btUptime, btRet, btErr, btSrc>>
         [] OTHER ->
                /\ BtReturn(p, 0, "err", "none")
                /\ UNCHANGED btUptime
    /\ UNCHANGED <<cachedBootTime, cachedVirtMap, virtEnv, statFile, uptimeFile, bootAt, wall,
                   btCalls, btCache, btUseStat, btStatT>>
    /\ UNCHANGED <<percentVars, busyVars, procVars>>

\* time.Now(), t := currentTime - b, the store of uint64(t), the return.
BtNow(p) ==
    /\ BtRunning
    /\ btPc[p] = "now"
    /\ LET t == uptimeBootTime(wall, btUptime[p])
       IN  /\ cachedBootTime' = IF btCache[p] THEN t ELSE cachedBootTime
           /\ BtReturn(p, t, "nil", "uptime")
    /\ UNCHANGED <<cachedVirtMap, virtEnv, statFile, uptimeFile, bootAt, wall, btCalls,
                   btCache, btUseStat, btStatT, btUptime>>
    /\ UNCHANGED <<percentVars, busyVars, procVars>>

BootNext ==
    \/ BtTick
    \/ \E p \in Procs, enableCache \in BOOLEAN : BtCall(p, enableCache)
    \/ \E p \in Procs : BtVirt(p)
    \/ \E p \in Procs : BtStat(p)
    \/ \E p \in Procs : BtReadUptime(p)
    \/ \E p \in Procs : BtNow(p)

\* No BootTimeWithContext call yet.
BtNoCalls ==
    /\ cachedBootTime = 0
    /\ cachedVirtMap = NoVirt
    /\ wall = WallStart
    /\ btCalls = 0
    /\ btPc = [p \in Procs |-> "idle"]
    /\ btCache = [p \in Procs |-> FALSE]
    /\ btUseStat = [p \in Procs |-> FALSE]
    /\ btStatT = [p \in Procs |-> 0]
    /\ btUptime = [p \in Procs |-> 0]
    /\ btRet = [p \in Procs |-> 0]
    /\ btErr = [p \in Procs |-> "none"]
    /\ btSrc = [p \in Procs |-> "none"]

BootInit ==
    /\ BtNoCalls
    /\ virtEnv \in Identities
    /\ statFile \in StatKinds
    /\ uptimeFile \in UptimeKinds
    /\ bootAt \in BootInstants

BootIdle ==
    /\ BtNoCalls
    /\ virtEnv = Virt("", "")
    /\ statFile = "ok"
    /\ uptimeFile = "ok"
    /\ bootAt = 10 * Second

ProcIdle ==
    /\ procSet = 1
    /\ procFile = 1
    /\ bootTime = 0
    /\ now = 0
    /\ procPc = "start"
    /\ crtTime = 0
    /\ rawPercent = NoPct
    /\ procRet = NoPct
    /\ procErr = "none"

BusyIdle ==
    /\ snap1 = ZeroTimes("cpu-total")
    /\ snap2 = ZeroTimes("cpu-total")
    /\ busyPct = NoPct
    /\ allPct = [ret |-> <<>>, err |-> "none"]
    /\ busyPc = "start"

\* The percentage functions under concurrent callers.
Init == PercentInit /\ BusyIdle /\ ProcIdle /\ BootIdle

Spec == Init /\ [][PercentNext]_vars

PercentIdle ==
    /\ file = 1
    /\ writes = 0
    /\ clock = 2
    /\ lastCPUPercent = [lastCPUTimes |-> SlotOf(Sample(1, FALSE, 0)),
                         lastPerCPUTimes |-> SlotOf(Sample(1, TRUE, 1))]
    /\ mutex = NoProc
    /\ calls = 0
    /\ pc = [p \in Procs |-> "idle"]
    /\ call = [p \in Procs |-> NoCall]
    /\ cpuTimes = [p \in Procs |-> NoSample]
    /\ lastTimes = [p \in Procs |-> NoSample]
    /\ cpuTimes1 = [p \in Procs |-> NoSample]
    /\ cpuTimes2 = [p \in Procs |-> NoSample]
    /\ ret = [p \in Procs |-> <<>>]
    /\ err = [p \in Procs |-> "none"]
    /\ totalRet = [p \in Procs |-> NoPct]
    /\ ctxDone = [p \in Procs |-> FALSE]
    /\ timerFired = [p \in Procs |-> FALSE]
    /\ diffLog = {}

\* calculateBusy and calculateAllBusy over every pair of bounded snapshots.
InitBusy == BusyInit /\ PercentIdle /\ ProcIdle /\ BootIdle

SpecBusy == InitBusy /\ [][BusyNext]_vars

\* CPUPercent of a process handle.
InitProc == ProcInit /\ BusyIdle /\ PercentIdle /\ BootIdle

SpecProc == InitProc /\ [][ProcNext]_vars

\* BootTimeWithContext under concurrent callers.
InitBoot == BootInit /\ BusyIdle /\ PercentIdle /\ ProcIdle

SpecBoot == InitBoot /\ [][BootNext]_vars

\* ------------------------------------------------------------------ the claims

Zero == <<0, 1>>

Hundred == <<100, 1>>

\* A percentage within [0, 100].
PctInRange(x) == x[2] > 0 /\ RatLeq(Zero, x) /\ RatLeq(x, Hundred)

\* C1: every percentage calculateBusy returns, and every element of what
\* calculateAllBusy (hence Percent, in either mode) returns for two samples,
\* lies in [0, 100], for every pair of snapshots with non-negative counters,
\* whichever of the two is the larger. (SpecBusy)
C1_PercentInRange ==
    /\ busyPc \in {"busy", "all"} => PctInRange(busyPct)
    /\ busyPc = "all" => \A i \in DOMAIN allPct.ret : PctInRange(allPct.ret[i])

\* C1's case: a counter went back (idle), busy time grew by more than the
\* total did, and the result was cut to 100.
C1_Witness ==
    /\ busyPc = "all"
    /\ snap2.Idle < snap1.Idle
    /\ getAllBusy(snap2)[1] > getAllBusy(snap1)[1]
    /\ getAllBusy(snap2)[2] - getAllBusy(snap1)[2] > getAllBusy(snap2)[1] - getAllBusy(snap1)[1]
    /\ busyPct = Hundred
    /\ allPct.ret = <<Hundred>>

\* The reference of C2: total is the sum of the ten counters less guest and
\* guestNice, busy is total less idle and iowait.
RECURSIVE SumOver(_, _)
SumOver(t, fs) ==
    IF fs = {} THEN 0
    ELSE LET c == CHOOSE x \in fs : TRUE IN t[c] + SumOver(t, fs \ {c})

RefTotal(t) == SumOver(t, CounterFields) - t.Guest - t.GuestNice

RefBusy(t) == RefTotal(t) - t.Idle - t.Iowait

\* C2: calculateBusy(t1, t2) is 0 when busy(t2) <= busy(t1); 100 when busy
\* grew and total(t2) <= total(t1); otherwise (busy2-busy1)/(total2-total1)*100
\* cut to [0, 100]. (SpecBusy)
C2_ThreeBranches ==
    busyPc \in {"busy", "all"} =>
        LET db == RefBusy(snap2) - RefBusy(snap1)
            dt == RefTotal(snap2) - RefTotal(snap1)
        IN  /\ db <= 0 => busyPct = Zero
            /\ (db > 0 /\ dt <= 0) => busyPct = Hundred
            /\ (db > 0 /\ dt > 0 /\ db >= dt) => busyPct = Hundred
            /\ (db > 0 /\ dt > 0 /\ db < dt) => busyPct[1] * dt = db * 100 * busyPct[2]

\* C2's case: the third branch with a result strictly between 0 and 100,
\* from a pair of snapshots that carries guest time.
C2_Witness ==
    /\ busyPc = "busy"
    /\ snap1.Guest + snap1.GuestNice + snap2.Guest + snap2.GuestNice > 0
    /\ RefBusy(snap2) > RefBusy(snap1)
    /\ RefTotal(snap2) - RefTotal(snap1) > RefBusy(snap2) - RefBusy(snap1)
    /\ busyPct # Zero
    /\ busyPct # Hundred

\* The goroutines inside the critical section of a since-last-call request.
InCritical(p) == pc[p] \in {"store", "storelen", "diff"}

\* C3: the step "read the baseline, store the new sample, diff" of one
\* since-last-call request is atomic with respect to that of every other: no
\* two requests of a mode diff against the same stored baseline, and whenever
\* the lock is free each slot holds one complete sample, data and length
\* written by the same request.
C3_AtomicSwap ==
    /\ \A d1 \in diffLog, d2 \in diffLog :
        (d1.percpu = d2.percpu /\ d1.base = d2.base) => d1 = d2
    /\ \A p \in Procs : \A d \in diffLog :
        (InCritical(p) /\ call[p].percpu = d.percpu) => lastTimes[p].at # d.base
    /\ \A p \in Procs, q \in Procs :
        (p # q /\ InCritical(p) /\ InCritical(q) /\ call[p].percpu = call[q].percpu)
            => lastTimes[p].at # lastTimes[q].at
    /\ mutex = NoProc =>
        /\ lastCPUPercent.lastCPUTimes.lenOf = lastCPUPercent.lastCPUTimes.at
        /\ lastCPUPercent.lastPerCPUTimes.lenOf = lastCPUPercent.lastPerCPUTimes.at

\* C3's case: two requests of one mode overlap; one has diffed inside the
\* lock while the other, already sampled, waits for it.
C3_Witness ==
    \E p \in Procs, q \in Procs :
        /\ p # q
        /\ pc[p] = "diff"
        /\ pc[q] = "lock"
        /\ call[p].interval <= 0
        /\ call[q].interval <= 0
        /\ call[p].percpu = call[q].percpu

\* C4, as claimed: every since-last-call request diffs a baseline taken
\* before its own new sample, so that the slot's sample is never replaced by
\* an earlier one.
C4_MostRecentSample == \A d \in diffLog : d.base < d.new

\* The request that takes a step, if goroutine p takes one.
Acting(p) == IF pc[p] \in {"idle", "ret", "done"} THEN call'[p] ELSE call[p]

\* C5: an interval-mode request leaves both slots of the cache and the lock
\* as they are; a since-last-call request for the aggregate leaves the
\* per-core slot as it is, and one for the cores leaves the aggregate slot.
C5_Frame ==
    [][\A p \in Procs :
        pc'[p] # pc[p] =>
            /\ Acting(p).interval > 0 =>
                (lastCPUPercent' = lastCPUPercent /\ mutex' = mutex)
            /\ (Acting(p).interval <= 0 /\ ~Acting(p).percpu) =>
                lastCPUPercent'.lastPerCPUTimes = lastCPUPercent.lastPerCPUTimes
            /\ (Acting(p).interval <= 0 /\ Acting(p).percpu) =>
                lastCPUPercent'.lastCPUTimes = lastCPUPercent.lastCPUTimes]_vars

\* C5's case: a per-core since-last-call request has stored its sample and an
\* interval-mode request has run to its end, and the aggregate slot still
\* holds the sample of init().
C5_Witness ==
    \E p \in Procs, q \in Procs :
        /\ pc[p] = "ret"
        /\ call[p].interval <= 0
        /\ call[p].percpu
        /\ lastCPUPercent.lastPerCPUTimes.at = cpuTimes[p].at
        /\ pc[q] = "ret"
        /\ call[q].interval > 0
        /\ err[q] = "nil"
        /\ lastCPUPercent.lastCPUTimes.at = 0

\* C6, as claimed: CPUPercent returns the lifetime percentage cpuPercent
\* computed, divided by the number of CPUs of the affinity set. (SpecProc)
C6_DividedByAffinity ==
    (procPc = "done" /\ procErr = "nil") =>
        RatEq(procRet, <<rawPercent[1], rawPercent[2] * procSet>>)

\* C7, as claimed: PercentTotal returns a value or an error, whatever the
\* file and the cache hold; it never panics.
C7_NoCrash == \A p \in Procs : pc[p] # "panic"

\* The two samples a returned request has diffed, if it got to diff.
Diffed(p) ==
    /\ pc[p] \in {"ret", "done"}
    /\ IF call[p].interval <= 0 THEN ~lastTimes[p].nil ELSE ~cpuTimes2[p].nil

Base(p) == IF call[p].interval <= 0 THEN lastTimes[p] ELSE cpuTimes1[p]

New(p) == IF call[p].interval <= 0 THEN cpuTimes[p] ELSE cpuTimes2[p]

\* C8: a diff of two samples of unequal length returns an error and no
\* percentages, in both modes; a diff that returns no error returns one
\* percentage for each element of either sample.
C8_ShapeCheck ==
    \A p \in Procs :
        Diffed(p) =>
            /\ Len(Base(p).times) # Len(New(p).times) =>
                (err[p] = "ShapeMismatch" /\ ret[p] = <<>>)
            /\ err[p] = "nil" =>
                (Len(ret[p]) = Len(Base(p).times) /\ Len(ret[p]) = Len(New(p).times))

\* C8's case: a per-core since-last-call request found two cores in the
\* baseline and one in its new sample.
C8_Witness ==
    \E p \in Procs :
        /\ pc[p] = "ret"
        /\ call[p].interval <= 0
        /\ call[p].percpu
        /\ Len(lastTimes[p].times) = 2
        /\ Len(cpuTimes[p].times) = 1
        /\ err[p] = "ShapeMismatch"

\* C9: a request whose context is cancelled while it sleeps, the interval not
\* yet over, leaves the sleep with the cancellation error, no percentages and
\* no second sample; a request whose context is not cancelled leaves the
\* sleep only once the interval is over, and goes on to the second sample. A
\* request that returned the cancellation error never took a second sample.
C9_CancelledSleep ==
    /\ [](\A p \in Procs :
            err[p] = "Canceled" => (ret[p] = <<>> /\ cpuTimes2[p] = NoSample))
    /\ [][\A p \in Procs :
            (pc[p] = "sleep" /\ pc'[p] # "sleep") =>
                /\ (ctxDone[p] /\ ~timerFired[p]) =>
                    /\ pc'[p] = "ret"
                    /\ err'[p] = "Canceled"
                    /\ ret'[p] = <<>>
                    /\ cpuTimes2'[p] = NoSample
                /\ ~ctxDone[p] =>
                    /\ timerFired[p]
                    /\ pc'[p] = "sample2"
                    /\ err'[p] = "none"]_vars

\* C9's case: an interval-mode request has returned the cancellation error.
C9_Witness ==
    \E p \in Procs :
        /\ pc[p] = "ret"
        /\ call[p].interval > 0
        /\ ctxDone[p]
        /\ err[p] = "Canceled"

\* C10: a since-last-call request whose baseline and new sample were taken
\* of the same content of the file returns no error and 0 for every element
\* of its sample: for the two-core file, one element for the aggregate and
\* two for the cores.
C10_StaticFileZero ==
    \A p \in Procs :
        (pc[p] \in {"ret", "done"} /\ call[p].interval <= 0
            /\ lastTimes[p].src = cpuTimes[p].src) =>
            /\ err[p] = "nil"
            /\ Len(ret[p]) = Len(cpuTimes[p].times)
            /\ \A i \in DOMAIN ret[p] : ret[p][i] = Zero
            /\ cpuTimes[p].src = 2 => Len(ret[p]) = IF call[p].percpu THEN 2 ELSE 1

\* C10's case: the baseline is the sample of an earlier request, not of
\* init(), the file is the two-core file throughout, and the per-core request
\* returned two zeros.
C10_Witness ==
    \E p \in Procs :
        /\ pc[p] = "ret"
        /\ call[p].interval <= 0
        /\ call[p].percpu
        /\ lastTimes[p].at >= 2
        /\ lastTimes[p].src = 2
        /\ cpuTimes[p].src = 2
        /\ ret[p] = <<Zero, Zero>>

\* The fields of a process-stat record a sample needs, and what each must parse as.
RequiredFields == {4, 7, 10, 11, 12, 13, 14, 15, 18, 22}

Parses(i, f) ==
    IF i \in {7, 10, 11, 12, 13, 22} THEN IsUint(f)
    ELSE IF i \in {4, 18} THEN IsInt(f)
    ELSE IsFloat(f)

\* A readable record in which a required field is missing or is no number.
Malformed(content) ==
    /\ content.readable
    /\ \/ ~content.parens
       \/ \E i \in RequiredFields :
             \/ i > Len(splitProcStat(content))
             \/ ~Parses(i, splitProcStat(content)[i])

\* C12: per-process sampling is all-or-nothing: the call never crashes, and on
\* a record with a required field missing (record too short, no parenthesised
\* name) or unparseable it returns an error and a zero result.
C12_AllOrNothing ==
    /\ procPc # "panic"
    /\ (procPc = "done" /\ Malformed(ProcFixtures[procFile])) =>
           (procErr = "err" /\ procRet = Zero)

\* C11: with caching enabled the boot-time cache is populated at most once:
\* once it holds a non-zero value, no step stores a different value in it.
C11_CachedOnce == [][cachedBootTime # 0 => cachedBootTime' = cachedBootTime]_vars

\* The identity the host's files show is that of an lxc or docker guest.
ContainerGuest == virtEnv.role = "guest" /\ virtEnv.system \in {"lxc", "docker"}

\* C13: a call that computes the boot time on a host that is no lxc or docker
\* guest, and has read btime from the stat file, returns that value without
\* error; only on lxc and docker guests does the result come from the uptime
\* file.
C13_SourceByVirtualization ==
    \A p \in Procs :
        (btPc[p] = "done" /\ btSrc[p] # "cache") =>
            /\ (~ContainerGuest /\ btStatT[p] # 0) =>
                   (btErr[p] = "nil" /\ btRet[p] = btStatT[p] /\ btSrc[p] = "stat")
            /\ btSrc[p] = "uptime" => ContainerGuest

====
